---- MODULE Spec2Model ----
(***************************************************************************)
(* Object-permission managers of django-guardian (guardian/managers.py):   *)
(* UserObjectPermissionManager and GroupObjectPermissionManager, the two   *)
(* assignment tables they write and the key-value cache they patch.        *)
(***************************************************************************)
EXTENDS Naturals, Sequences, FiniteSets

\* ------------------------------------------------------------------ bounds

\* Number of calls (manager calls and cache read-throughs) in a run.
MaxSteps == 3

\* Number of calls in a run of concurrent requests.
MaxCalls == 2

\* Length of the lists a cache entry starts with when the patch is checked on
\* arbitrary lists.
MaxLen == 3

\* ---------------------------------------------------------------- universe

None == "None"

Users == {"u1", "u2"}
Groups == {"g1"}
Kinds == {"user", "group"}
SubjectsOf(kind) == IF kind = "user" THEN Users ELSE Groups

Codenames == {"view", "edit"}

Obj(t, k) == [type |-> t, pk |-> k]
NoObject == Obj(None, None)
\* Two saved objects of one type, a saved object of another type that shares a
\* primary key with the first, and an object that was never saved.
Objects == {Obj("T1", "1"), Obj("T1", "2"), Obj("T2", "1"), Obj("T1", None)}
Persisted == {o \in Objects : o.pk # None}

\* The model class a direct (foreign-key) assignment table points to.
DirectType == "T1"

Perm(t, c) == [content_type |-> t, codename |-> c]
\* The rows of the Permission table: "edit" is not defined for T2.
Permissions == {Perm("T1", "view"), Perm("T1", "edit"), Perm("T2", "view")}

\* --------------------------------------------------------------- the cache

Absent == [present |-> FALSE, perms |-> << >>]
Entry(l) == [present |-> TRUE, perms |-> l]

\* ObjectPermissionChecker(subject).get_local_cache_key(obj)
CacheKey(kind, subject, obj) == <<kind, subject, obj.type, obj.pk>>

Keys == UNION {{CacheKey(k, s, o) : s \in SubjectsOf(k), o \in Objects} : k \in Kinds}

Contains(l, x) == \E i \in 1..Len(l) : l[i] = x
Count(l, x) == Cardinality({i \in 1..Len(l) : l[i] = x})
NoDuplicates(l) == \A i, j \in 1..Len(l) : l[i] = l[j] => i = j

VARIABLES
    generic,   \* generic[kind]: is_generic() of the manager's model
    members,   \* members[g]: the users with groups = g
    store,     \* store[kind]: the rows of the assignment table
    nextId,    \* nextId[kind]: the next primary key of the table
    cache,     \* cache[key]: Absent or Entry(list of codenames)
    last,      \* the last call: its arguments, what it read and its outcome
    steps,     \* calls made so far
    inflight   \* inflight[p]: the call request p is in, and where it stands

vars == <<generic, members, store, nextId, cache, last, steps, inflight>>

NoKey == <<None, None, None, None>>
Effect(op, key) == [op |-> op, key |-> key]

\* -------------------------------------------------- collaborators' lookups

\* The persisted check left out.
IsPersistedAlways(obj) == TRUE

\* getattr(obj, 'pk', None) is None raises ObjectNotPersisted
IsPersisted(obj) == obj.pk # None

\* ContentType.objects.get_for_model(obj)
ContentTypeOf(obj) == obj.type

\* The permission looked up by codename alone.
PermissionGetAnyType(ctype, perm) ==
    {p \in Permissions : p.codename = perm}

\* Permission.objects.get(content_type=ctype, codename=perm): the matching rows
\* of the Permission table; none of them is Permission.DoesNotExist.
PermissionGet(ctype, perm) ==
    {p \in Permissions : p.content_type = ctype /\ p.codename = perm}

\* The objects a manager's model can point to: any object through the generic
\* (content_type, object_pk) pair, objects of one model through a foreign key.
ObjectsFor(kind) ==
    IF generic[kind] THEN Objects ELSE {o \in Objects : o.type = DirectType}

\* ----------------------------------------------------------- store helpers

\* kwargs of assign_perm: the fields get_or_create looks up and creates with.
AssignKwargs(kind, permission, subject, obj) ==
    IF generic[kind]
    THEN [permission |-> permission, subject |-> subject,
          content_type |-> ContentTypeOf(obj), object_pk |-> obj.pk,
          content_object |-> NoObject]
    ELSE [permission |-> permission, subject |-> subject,
          content_type |-> None, object_pk |-> None,
          content_object |-> obj]

NewRow(id, kwargs) ==
    [id |-> id, permission |-> kwargs.permission, subject |-> kwargs.subject,
     content_type |-> kwargs.content_type, object_pk |-> kwargs.object_pk,
     content_object |-> kwargs.content_object]

Lookup(table, kwargs) ==
    {r \in table : /\ r.permission = kwargs.permission
                   /\ r.subject = kwargs.subject
                   /\ r.content_type = kwargs.content_type
                   /\ r.object_pk = kwargs.object_pk
                   /\ r.content_object = kwargs.content_object}

\* A blind insert: create() without the get() before it.
GetOrCreateBlind(table, kwargs, id) ==
    [err |-> "none", table |-> table \cup {NewRow(id, kwargs)},
     ret |-> {NewRow(id, kwargs)}, created |-> TRUE]

\* self.get_or_create(**kwargs): get() first, create() when nothing matches;
\* get() raises MultipleObjectsReturned when several rows match.
GetOrCreate(table, kwargs, id) ==
    LET found == Lookup(table, kwargs) IN
    IF found = {}
    THEN [err |-> "none", table |-> table \cup {NewRow(id, kwargs)},
          ret |-> {NewRow(id, kwargs)}, created |-> TRUE]
    ELSE IF Cardinality(found) = 1
    THEN [err |-> "none", table |-> table, ret |-> found, created |-> FALSE]
    ELSE [err |-> "MultipleObjectsReturned", table |-> table, ret |-> {},
          created |-> FALSE]

\* The filter without its is_generic() branch: object_pk on either model.
RemoveFilterGenericOnly(kind, perm, subject, obj, r) ==
    /\ r.permission.codename = perm
    /\ r.permission.content_type = obj.type
    /\ r.subject = subject
    /\ r.object_pk = obj.pk

\* The filter without its object key: every object of the type matches.
RemoveFilterAnyObject(kind, perm, subject, obj, r) ==
    /\ r.permission.codename = perm
    /\ r.permission.content_type = obj.type
    /\ r.subject = subject

\* The filter without 'permission__codename': every codename matches.
RemoveFilterAnyCodename(kind, perm, subject, obj, r) ==
    /\ r.permission.content_type = obj.type
    /\ r.subject = subject
    /\ IF generic[kind] THEN r.object_pk = obj.pk
                        ELSE r.content_object.pk = obj.pk

\* filters of remove_perm, as a predicate on a row.
RemoveFilter(kind, perm, subject, obj, r) ==
    /\ r.permission.codename = perm
    /\ r.permission.content_type = ContentTypeOf(obj)
    /\ r.subject = subject
    /\ IF generic[kind] THEN r.object_pk = obj.pk
                        ELSE r.content_object.pk = obj.pk

\* ----------------------------------------------------------- cache helpers

\* The loop without its break: every element equal to perm is dropped.
PopAll(l, x) == SelectSeq(l, LAMBDA y : y # x)

\* The loop of remove_perm: pop the first element equal to perm, then break.
PopFirst(l, x) ==
    LET i == CHOOSE i \in 1..Len(l) :
                 l[i] = x /\ \A j \in 1..(i - 1) : l[j] # x
    IN SubSeq(l, 1, i - 1) \o SubSeq(l, i + 1, Len(l))

\* The append without the "perm not in cache_perms" test.
AppendPatchAlways(c, key, perm) ==
    IF c[key].present
    THEN [cache |-> [c EXCEPT ![key] = Entry(Append(c[key].perms, perm))],
          log |-> <<Effect("cache.get", key), Effect("cache.set", key)>>]
    ELSE [cache |-> c, log |-> <<Effect("cache.get", key)>>]

\* The codename put in front of the list instead of at its end.
AppendPatchFront(c, key, perm) ==
    IF c[key].present /\ ~Contains(c[key].perms, perm)
    THEN [cache |-> [c EXCEPT ![key] = Entry(<<perm>> \o c[key].perms)],
          log |-> <<Effect("cache.get", key), Effect("cache.set", key)>>]
    ELSE [cache |-> c, log |-> <<Effect("cache.get", key)>>]

\* The patch without the "cache_perms is not None" test: a miss is treated
\* as an empty list.
AppendPatchPopulates(c, key, perm) ==
    IF ~Contains(c[key].perms, perm)
    THEN [cache |-> [c EXCEPT ![key] = Entry(Append(c[key].perms, perm))],
          log |-> <<Effect("cache.get", key), Effect("cache.set", key)>>]
    ELSE [cache |-> c, log |-> <<Effect("cache.get", key)>>]

\* "Add to cache": cache.get(key), and append and cache.set only when the
\* entry is there and lacks perm.
AppendPatch(c, key, perm) ==
    LET cache_perms == c[key] IN
    IF cache_perms.present /\ ~Contains(cache_perms.perms, perm)
    THEN [cache |-> [c EXCEPT ![key] = Entry(Append(cache_perms.perms, perm))],
          log |-> <<Effect("cache.get", key), Effect("cache.set", key)>>]
    ELSE [cache |-> c, log |-> <<Effect("cache.get", key)>>]

\* The revoke that leaves the cache alone.
RemovePatchSkipped(c, key, perm) ==
    [cache |-> c, log |-> << >>]

\* "Remove for cache": cache.get(key), and pop and cache.set only when the
\* entry is there and holds perm.
RemovePatch(c, key, perm) ==
    LET cache_perms == c[key] IN
    IF cache_perms.present /\ Contains(cache_perms.perms, perm)
    THEN [cache |-> [c EXCEPT ![key] = Entry(PopFirst(cache_perms.perms, perm))],
          log |-> <<Effect("cache.get", key), Effect("cache.set", key)>>]
    ELSE [cache |-> c, log |-> <<Effect("cache.get", key)>>]

\* User.objects.filter(groups = group)
MembersOf(group) == members[group]

\* The deletions of the fan-out loop, one cache.delete per member, in the
\* order the members are iterated.
RECURSIVE DeleteLog(_, _)
DeleteLog(us, obj) ==
    IF us = {} THEN << >>
    ELSE LET u == CHOOSE u \in us : TRUE IN
         <<Effect("cache.delete", CacheKey("user", u, obj))>>
             \o DeleteLog(us \ {u}, obj)

\* The loop left after its first iteration.
FanOutFirstOnly(c, group, obj) ==
    LET first == IF members[group] = {} THEN {}
                 ELSE {CHOOSE u \in members[group] : TRUE}
    IN [cache |-> [k \in DOMAIN c |->
                     IF \E u \in first : k = CacheKey("user", u, obj)
                     THEN Absent ELSE c[k]],
        log |-> DeleteLog(first, obj)]

\* The loop over User.objects.all(): members or not, every user's entry for
\* the object is deleted.
FanOutAllUsers(c, group, obj) ==
    [cache |-> [k \in DOMAIN c |->
                  IF \E u \in Users : k = CacheKey("user", u, obj)
                  THEN Absent ELSE c[k]],
     log |-> DeleteLog(Users, obj)]

\* for user in users: cache.delete(key of (user, obj))
FanOut(c, group, obj) ==
    [cache |-> [k \in DOMAIN c |->
                  IF \E u \in MembersOf(group) : k = CacheKey("user", u, obj)
                  THEN Absent ELSE c[k]],
     log |-> DeleteLog(MembersOf(group), obj)]

\* The member users whose entry for obj is in the cache.
Warm(c, group, obj) ==
    {u \in MembersOf(group) : c[CacheKey("user", u, obj)].present}

\* ------------------------------------------------------------ call records

Call(op, kind, perm, subject, obj) ==
    [op |-> op, kind |-> kind, perm |-> perm, subject |-> subject, obj |-> obj]

\* What a call did: the exception it raised ("none": it returned), the rows it
\* returned, whether get_or_create created the row, how many rows the delete
\* removed, the subject's own cache entry and the members' present entries as
\* they were when the call started, and its store and cache effects in order.
Outcome(call, err, ret, created, deleted, own, fan, log) ==
    [op |-> call.op, kind |-> call.kind, perm |-> call.perm,
     subject |-> call.subject, obj |-> call.obj,
     err |-> err, ret |-> ret, created |-> created, deleted |-> deleted,
     own |-> own, fan |-> fan, log |-> log]

Raised(call, err) == Outcome(call, err, {}, FALSE, 0, Absent, {}, << >>)

\* The requests that may run at the same time.
Procs == {"p1", "p2"}

\* A request's frame: the call it is in, the statement it is at, the
\* exception it raised, and its locals cache_perms and users.
Frame(call, pc, err, cache_perms, users) ==
    [op |-> call.op, kind |-> call.kind, perm |-> call.perm,
     subject |-> call.subject, obj |-> call.obj,
     pc |-> pc, err |-> err, cache_perms |-> cache_perms, users |-> users]

Idle == Frame(Call("idle", None, None, None, NoObject), "idle", "none", Absent, {})

\* ------------------------------------------------------------ user manager

\* UserObjectPermissionManager.assign_perm(perm, user, obj)
UserAssignPerm(perm, user, obj) ==
    LET call == Call("assign_perm", "user", perm, user, obj)
        found == PermissionGet(ContentTypeOf(obj), perm)
    IN
    /\ steps < MaxSteps
    /\ steps' = steps + 1
    /\ UNCHANGED <<inflight, generic, members>>
    /\ IF ~IsPersisted(obj)
       THEN /\ last' = Raised(call, "ObjectNotPersisted")
            /\ UNCHANGED <<store, nextId, cache>>
       ELSE IF found = {}
       THEN /\ last' = Raised(call, "DoesNotExist")
            /\ UNCHANGED <<store, nextId, cache>>
       ELSE LET permission == CHOOSE p \in found : TRUE
                kwargs == AssignKwargs("user", permission, user, obj)
                got == GetOrCreate(store["user"], kwargs, nextId["user"])
                key == CacheKey("user", user, obj)
                patch == AppendPatch(cache, key, perm)
            IN
            IF got.err # "none"
            THEN /\ last' = Raised(call, got.err)
                 /\ UNCHANGED <<store, nextId, cache>>
            ELSE /\ store' = [store EXCEPT !["user"] = got.table]
                 /\ nextId' = [nextId EXCEPT !["user"] =
                                  IF got.created THEN @ + 1 ELSE @]
                 /\ cache' = patch.cache
                 /\ last' = Outcome(call, "none", got.ret, got.created, 0,
                                    cache[key], {},
                                    <<Effect("get_or_create", NoKey)>> \o patch.log)

\* UserObjectPermissionManager.remove_perm(perm, user, obj)
UserRemovePerm(perm, user, obj) ==
    LET call == Call("remove_perm", "user", perm, user, obj) IN
    /\ steps < MaxSteps
    /\ steps' = steps + 1
    /\ UNCHANGED <<inflight, generic, members, nextId>>
    /\ IF ~IsPersisted(obj)
       THEN /\ last' = Raised(call, "ObjectNotPersisted")
            /\ UNCHANGED <<store, cache>>
       ELSE LET gone == {r \in store["user"] :
                            RemoveFilter("user", perm, user, obj, r)}
                key == CacheKey("user", user, obj)
                patch == RemovePatch(cache, key, perm)
            IN
            /\ store' = [store EXCEPT !["user"] = @ \ gone]
            /\ cache' = patch.cache
            /\ last' = Outcome(call, "none", {}, FALSE, Cardinality(gone),
                               cache[key], {},
                               <<Effect("delete", NoKey)>> \o patch.log)

\* self.filter(content_type = ctype, <subject field> = subject) of
\* get_for_object. A direct model has no content_type field, and filter()
\* raises FieldError for a keyword that names no field.
ForObject(kind, subject, obj) ==
    IF generic[kind]
    THEN [err |-> "none",
          ret |-> {r \in store[kind] : /\ r.content_type = ContentTypeOf(obj)
                                       /\ r.subject = subject}]
    ELSE [err |-> "FieldError", ret |-> {}]

\* UserObjectPermissionManager.get_for_object(user, obj)
UserGetForObject(user, obj) ==
    LET call == Call("get_for_object", "user", None, user, obj)
        perms == ForObject("user", user, obj)
    IN
    /\ steps < MaxSteps
    /\ steps' = steps + 1
    /\ UNCHANGED <<inflight, generic, members, store, nextId, cache>>
    /\ IF ~IsPersisted(obj)
       THEN last' = Raised(call, "ObjectNotPersisted")
       ELSE last' = Outcome(call, perms.err, perms.ret, FALSE, 0, Absent, {}, << >>)

\* ----------------------------------------------------------- group manager

\* GroupObjectPermissionManager.assign_perm(perm, group, obj)
GroupAssignPerm(perm, group, obj) ==
    LET call == Call("assign_perm", "group", perm, group, obj)
        found == PermissionGet(ContentTypeOf(obj), perm)
    IN
    /\ steps < MaxSteps
    /\ steps' = steps + 1
    /\ UNCHANGED <<inflight, generic, members>>
    /\ IF ~IsPersisted(obj)
       THEN /\ last' = Raised(call, "ObjectNotPersisted")
            /\ UNCHANGED <<store, nextId, cache>>
       ELSE IF found = {}
       THEN /\ last' = Raised(call, "DoesNotExist")
            /\ UNCHANGED <<store, nextId, cache>>
       ELSE LET permission == CHOOSE p \in found : TRUE
                kwargs == AssignKwargs("group", permission, group, obj)
                got == GetOrCreate(store["group"], kwargs, nextId["group"])
                key == CacheKey("group", group, obj)
                patch == AppendPatch(cache, key, perm)
                fanout == FanOut(patch.cache, group, obj)
            IN
            IF got.err # "none"
            THEN /\ last' = Raised(call, got.err)
                 /\ UNCHANGED <<store, nextId, cache>>
            ELSE /\ store' = [store EXCEPT !["group"] = got.table]
                 /\ nextId' = [nextId EXCEPT !["group"] =
                                  IF got.created THEN @ + 1 ELSE @]
                 /\ cache' = fanout.cache
                 /\ last' = Outcome(call, "none", got.ret, got.created, 0,
                                    cache[key], Warm(cache, group, obj),
                                    <<Effect("get_or_create", NoKey)>>
                                        \o patch.log \o fanout.log)

\* GroupObjectPermissionManager.remove_perm(perm, group, obj)
GroupRemovePerm(perm, group, obj) ==
    LET call == Call("remove_perm", "group", perm, group, obj) IN
    /\ steps < MaxSteps
    /\ steps' = steps + 1
    /\ UNCHANGED <<inflight, generic, members, nextId>>
    /\ IF ~IsPersisted(obj)
       THEN /\ last' = Raised(call, "ObjectNotPersisted")
            /\ UNCHANGED <<store, cache>>
       ELSE LET gone == {r \in store["group"] :
                            RemoveFilter("group", perm, group, obj, r)}
                key == CacheKey("group", group, obj)
                patch == RemovePatch(cache, key, perm)
                fanout == FanOut(patch.cache, group, obj)
            IN
            /\ store' = [store EXCEPT !["group"] = @ \ gone]
            /\ cache' = fanout.cache
            /\ last' = Outcome(call, "none", {}, FALSE, Cardinality(gone),
                               cache[key], Warm(cache, group, obj),
                               <<Effect("delete", NoKey)>>
                                   \o patch.log \o fanout.log)

\* GroupObjectPermissionManager.get_for_object(group, obj)
GroupGetForObject(group, obj) ==
    LET call == Call("get_for_object", "group", None, group, obj)
        perms == ForObject("group", group, obj)
    IN
    /\ steps < MaxSteps
    /\ steps' = steps + 1
    /\ UNCHANGED <<inflight, generic, members, store, nextId, cache>>
    /\ IF ~IsPersisted(obj)
       THEN last' = Raised(call, "ObjectNotPersisted")
       ELSE last' = Outcome(call, perms.err, perms.ret, FALSE, 0, Absent, {}, << >>)

\* ---------------------------------------------------- the cache's read path

\* Whether a row of the kind's table is an assignment on obj.
RowOn(kind, r, obj) ==
    IF generic[kind]
    THEN r.content_type = obj.type /\ r.object_pk = obj.pk
    ELSE r.content_object = obj

\* The codenames a subject has rows for on obj in its own table.
Direct(kind, subject, obj) ==
    {r.permission.codename :
        r \in {x \in store[kind] : x.subject = subject /\ RowOn(kind, x, obj)}}

\* The codenames a subject holds on obj: its own, and for a user those of
\* every group the user is a member of.
Held(kind, subject, obj) ==
    Direct(kind, subject, obj) \cup
    (IF kind = "user"
     THEN UNION {Direct("group", g, obj) : g \in {h \in Groups : subject \in members[h]}}
     ELSE {})

Orderings(S) ==
    {l \in [1..Cardinality(S) -> S] : \A i, j \in 1..Cardinality(S) : l[i] = l[j] => i = j}

\* A permission check on a cache miss: the checker computes the codenames the
\* subject holds on obj and stores them under the key, in no particular order.
Populate(kind, subject, obj) ==
    LET key == CacheKey(kind, subject, obj) IN
    /\ steps < MaxSteps
    /\ IsPersisted(obj)
    /\ ~cache[key].present
    /\ \E l \in Orderings(Held(kind, subject, obj)) :
          cache' = [cache EXCEPT ![key] = Entry(l)]
    /\ steps' = steps + 1
    /\ last' = Outcome(Call("populate", kind, None, subject, obj), "none", {},
                       FALSE, 0, Absent, {}, <<Effect("cache.set", key)>>)
    /\ UNCHANGED <<inflight, generic, members, store, nextId>>

\* ----------------------------------------------------------- specification

\* The deployments a run starts from. Both assignment models are declared the
\* same way: generic, with both users in the group, or direct, with u1 in the
\* group and u2 outside it.
Configs ==
    {[generic |-> [k \in Kinds |-> TRUE],
      members |-> [g \in Groups |-> {"u1", "u2"}]],
     [generic |-> [k \in Kinds |-> FALSE],
      members |-> [g \in Groups |-> {"u1"}]]}

\* The tables and the cache are empty.
Init ==
    /\ \E c \in Configs : generic = c.generic /\ members = c.members
    /\ store = [k \in Kinds |-> {}]
    /\ nextId = [k \in Kinds |-> 1]
    /\ cache = [k \in Keys |-> Absent]
    /\ last = Outcome(Call("init", None, None, None, NoObject), "none", {},
                      FALSE, 0, Absent, {}, << >>)
    /\ steps = 0
    /\ inflight = [p \in Procs |-> Idle]

Next ==
    \/ \E p \in Codenames, u \in Users, o \in ObjectsFor("user") : UserAssignPerm(p, u, o)
    \/ \E p \in Codenames, u \in Users, o \in ObjectsFor("user") : UserRemovePerm(p, u, o)
    \/ \E u \in Users, o \in ObjectsFor("user") : UserGetForObject(u, o)
    \/ \E p \in Codenames, g \in Groups, o \in ObjectsFor("group") : GroupAssignPerm(p, g, o)
    \/ \E p \in Codenames, g \in Groups, o \in ObjectsFor("group") : GroupRemovePerm(p, g, o)
    \/ \E g \in Groups, o \in ObjectsFor("group") : GroupGetForObject(g, o)
    \/ \E k \in Kinds, s \in Users \cup Groups, o \in Objects :
          s \in SubjectsOf(k) /\ Populate(k, s, o)

Spec == Init /\ [][Next]_vars

\* ------------------------------------------------------------------ claims

SameTriple(r1, r2) ==
    /\ r1.subject = r2.subject
    /\ r1.permission = r2.permission
    /\ r1.content_type = r2.content_type
    /\ r1.object_pk = r2.object_pk
    /\ r1.content_object = r2.content_object

\* The rows of the last call's table for its subject, codename and object.
RowsOfLast ==
    {r \in store[last.kind] : /\ r.subject = last.subject
                              /\ r.permission = Perm(last.obj.type, last.perm)
                              /\ RowOn(last.kind, r, last.obj)}

\* The last call's own cache entry, as it is now.
OwnNow == cache[CacheKey(last.kind, last.subject, last.obj)]

Returned(op) == last.op = op /\ last.err = "none"

Wrote(key) == \E i \in 1..Len(last.log) :
                 last.log[i].key = key /\ last.log[i].op \in {"cache.set", "cache.delete"}

\* No table ever holds two rows for one (subject, permission, object).
StoreUnique ==
    \A k \in Kinds : \A r1, r2 \in store[k] : SameTriple(r1, r2) => r1 = r2

\* A grant that returns leaves exactly one row for its triple and returns it.
GrantReturnsTheRow ==
    Returned("assign_perm") =>
        Cardinality(RowsOfLast) = 1 /\ last.ret = RowsOfLast

\* C1: the store holds at most one row per (subject, permission, object); a
\* grant leaves exactly one row for its triple and returns it, a repeated
\* grant the existing one; and listForObject on a saved object returns the
\* subject's rows on that object.
C1_IdempotentGrant ==
    /\ StoreUnique
    /\ GrantReturnsTheRow
    /\ (last.op = "get_for_object" /\ last.obj.pk # None) =>
          \A r \in store[last.kind] :
              (r.subject = last.subject /\ RowOn(last.kind, r, last.obj))
                  => (last.err = "none" /\ r \in last.ret)

\* C2: a group grant that returns leaves every member's entry for the object
\* absent, whether or not it created the row; the group's own entry holds the
\* codename when it was present without it, and stays absent when it was.
C2_GroupGrantFanOut ==
    (Returned("assign_perm") /\ last.kind = "group") =>
        /\ \A u \in members[last.subject] :
              ~cache[CacheKey("user", u, last.obj)].present
        /\ (last.own.present /\ ~Contains(last.own.perms, last.perm)) =>
              (OwnNow.present /\ Contains(OwnNow.perms, last.perm))
        /\ ~last.own.present => ~OwnNow.present

\* A group grant on a group whose members all had an entry for the object,
\* and whose own entry was present without the codename.
C2_Witness ==
    /\ Returned("assign_perm") /\ last.kind = "group"
    /\ last.fan = members[last.subject]
    /\ last.own.present /\ ~Contains(last.own.perms, last.perm)

\* C3: a group revoke that returns leaves every member's entry for the object
\* absent, whether or not it deleted a row; the group's own entry, when
\* present, does not hold the codename; no row for (group, codename, object)
\* is left.
C3_GroupRevokeFanOut ==
    (Returned("remove_perm") /\ last.kind = "group") =>
        /\ \A u \in members[last.subject] :
              ~cache[CacheKey("user", u, last.obj)].present
        /\ OwnNow.present = last.own.present
        /\ ~Contains(OwnNow.perms, last.perm)
        /\ RowsOfLast = {}

\* A group revoke that deleted the row while a member had an entry.
C3_Witness ==
    /\ Returned("remove_perm") /\ last.kind = "group"
    /\ last.deleted = 1
    /\ last.fan # {}

\* Every present entry lists only codenames its subject holds on the object.
CacheSound ==
    \A k \in Kinds : \A s \in SubjectsOf(k) : \A o \in Persisted :
        LET e == cache[CacheKey(k, s, o)] IN
        e.present => \A i \in 1..Len(e.perms) : e.perms[i] \in Held(k, s, o)

C6_GrantAppends ==
    (Returned("assign_perm") /\ last.kind = "user" /\ last.own.present) =>
        IF Contains(last.own.perms, last.perm)
        THEN /\ OwnNow = last.own
             /\ ~Wrote(CacheKey("user", last.subject, last.obj))
             /\ Count(OwnNow.perms, last.perm) = Count(last.own.perms, last.perm)
        ELSE /\ OwnNow = Entry(Append(last.own.perms, last.perm))
             /\ Count(OwnNow.perms, last.perm) = 1

\* A repeated user grant: the row existed and the entry held the codename.
C6_Witness ==
    /\ Returned("assign_perm") /\ last.kind = "user"
    /\ ~last.created
    /\ last.own.present /\ Contains(last.own.perms, last.perm)

\* C8: a grant or revoke that finds the subject's own entry absent leaves it
\* absent and writes nothing under its key, while the table is changed: the
\* row is there after the grant and gone after the revoke.
C8_AbsentStaysAbsent ==
    ((Returned("assign_perm") \/ Returned("remove_perm")) /\ ~last.own.present) =>
        /\ ~OwnNow.present
        /\ ~Wrote(CacheKey(last.kind, last.subject, last.obj))
        /\ (RowsOfLast # {}) = (last.op = "assign_perm")
        /\ last.op = "assign_perm" => last.ret \subseteq store[last.kind]

\* A grant that created the row while the subject's entry was absent.
C8_Witness ==
    /\ Returned("assign_perm") /\ last.created
    /\ ~last.own.present
    /\ RowsOfLast # {}

\* C9: grant, revoke and listForObject on an object without a primary key
\* raise ObjectNotPersisted and change neither a table nor a cache entry.
C9_UnsavedObjectRejected ==
    [][(last'.op \in {"assign_perm", "remove_perm", "get_for_object"}
            /\ last'.obj.pk = None) =>
          /\ last'.err = "ObjectNotPersisted"
          /\ last'.log = << >>
          /\ store' = store /\ nextId' = nextId /\ cache' = cache]_vars

\* A group grant on an unsaved object, rejected while the group has a row
\* and a member has an entry.
C9_Witness ==
    /\ last.op = "assign_perm" /\ last.kind = "group"
    /\ last.obj.pk = None
    /\ last.err = "ObjectNotPersisted"
    /\ store["group"] # {}
    /\ \E u \in members[last.subject] : \E o \in Persisted :
          cache[CacheKey("user", u, o)].present

\* C10: a grant of a codename the Permission table does not have for the
\* object's type raises DoesNotExist and changes neither a table nor a cache
\* entry.
C10_UnknownPermissionRejected ==
    [][(last'.op = "assign_perm" /\ last'.obj.pk # None
            /\ Perm(last'.obj.type, last'.perm) \notin Permissions) =>
          /\ last'.err = "DoesNotExist"
          /\ last'.log = << >>
          /\ store' = store /\ nextId' = nextId /\ cache' = cache]_vars

\* A group grant of an unknown codename, rejected while a member and the
\* group have an entry for the object.
C10_Witness ==
    /\ last.op = "assign_perm" /\ last.kind = "group"
    /\ last.err = "DoesNotExist"
    /\ OwnNow.present
    /\ \E u \in members[last.subject] :
          cache[CacheKey("user", u, last.obj)].present

\* The rows of a table for a subject, a codename and an object.
RowsFor(kind, subject, perm, obj) ==
    {r \in store[kind] : /\ r.subject = subject
                         /\ r.permission.codename = perm
                         /\ RowOn(kind, r, obj)}

\* C11: a revoke that directly follows a returned grant with the same
\* codename, subject and object, on either manager and either model, returns,
\* deletes the one row of that triple and leaves no row for it; every other
\* row of that table and the whole other table are kept.
C11_GrantThenRevoke ==
    [][(/\ Returned("assign_perm")
        /\ last'.op = "remove_perm"
        /\ last'.kind = last.kind /\ last'.perm = last.perm
        /\ last'.subject = last.subject /\ last'.obj = last.obj) =>
          /\ last'.err = "none"
          /\ last'.deleted = 1
          /\ RowsFor(last.kind, last.subject, last.perm, last.obj)' = {}
          /\ store' = [store EXCEPT ![last.kind] =
                @ \ RowsFor(last.kind, last.subject, last.perm, last.obj)]]_vars

\* Two grants created rows 1 and 2 and the third call, a revoke, deleted one
\* row while row 1 is still there: the revoke removed the row of the grant
\* right before it and kept the other.
C11_Witness ==
    /\ steps = 3
    /\ Returned("remove_perm") /\ last.deleted = 1
    /\ nextId[last.kind] = 3
    /\ \E r \in store[last.kind] : r.id = 1
    /\ RowsOfLast = {}

\* C13: a revoke on a saved object for which the subject has no row with
\* that codename (never granted, already revoked, or a codename the
\* Permission table does not have for the type) returns without an error,
\* deletes nothing and leaves both tables as they were.
C13_RevokeIdempotent ==
    [][(/\ last'.op = "remove_perm"
        /\ last'.obj.pk # None
        /\ RowsFor(last'.kind, last'.subject, last'.perm, last'.obj) = {}) =>
          /\ last'.err = "none"
          /\ last'.deleted = 0
          /\ store' = store /\ nextId' = nextId]_vars

\* A revoke of a codename the Permission table does not have for the
\* object's type returned and deleted nothing, while its subject has a row
\* for another codename on that object.
C13_Witness ==
    /\ Returned("remove_perm") /\ last.deleted = 0
    /\ Perm(last.obj.type, last.perm) \notin Permissions
    /\ \E r \in store[last.kind] :
          r.subject = last.subject /\ RowOn(last.kind, r, last.obj)

\* The type of the object a row is an assignment on.
RowType(kind, r) ==
    IF generic[kind] THEN r.content_type ELSE r.content_object.type

\* C14: listForObject on a saved object returns, changes neither a table nor
\* a cache entry, and returns exactly the rows of its subject on objects of
\* the object's type, rows on other objects of that type included.
C14_ListForObject ==
    [][(last'.op = "get_for_object" /\ last'.obj.pk # None) =>
          /\ store' = store /\ nextId' = nextId /\ cache' = cache
          /\ last'.err = "none"
          /\ last'.ret = {r \in store[last'.kind] :
                             /\ r.subject = last'.subject
                             /\ RowType(last'.kind, r) = last'.obj.type}]_vars

\* The codenames a list holds.
Range(l) == {l[i] : i \in 1..Len(l)}

\* C15: a user grant or revoke that returns, made while the user's entry for
\* the object is present and lists exactly the codenames the user holds on it
\* (own rows and rows of the user's groups), leaves the entry present and
\* listing exactly the codenames the user holds after the call.
C15_UserPatchKeepsHeld ==
    [][\A u \in Users, o \in Persisted :
          (/\ last'.kind = "user" /\ last'.subject = u /\ last'.obj = o
           /\ last'.op \in {"assign_perm", "remove_perm"} /\ last'.err = "none"
           /\ cache[CacheKey("user", u, o)].present
           /\ Range(cache[CacheKey("user", u, o)].perms) = Held("user", u, o)) =>
             /\ cache'[CacheKey("user", u, o)].present
             /\ Range(cache'[CacheKey("user", u, o)].perms) = Held("user", u, o)']_vars

\* The cache keys a call may write: its subject's key for the object and,
\* for a group call, the keys for that object of the group's members.
Responsible(kind, subject, obj) ==
    {CacheKey(kind, subject, obj)} \cup
    (IF kind = "group"
     THEN {CacheKey("user", u, obj) : u \in members[subject]}
     ELSE {})

\* C19: a grant or revoke changes no cache entry outside its subject's key
\* for the object and, for a group, the members' keys for that object;
\* entries of other objects, other subjects and non-members are as before.
\* It changes no row of the other table and no row of another subject, and
\* the membership is not written.
C19_WritesOnlyItsKeys ==
    [][(last'.op \in {"assign_perm", "remove_perm"} /\ last'.obj.pk # None) =>
          /\ \A k \in Keys \ Responsible(last'.kind, last'.subject, last'.obj) :
                cache'[k] = cache[k]
          /\ \A k \in {j \in Keys : cache'[j] # cache[j]} : Wrote(k)'
          /\ \A k \in Kinds : k # last'.kind => store'[k] = store[k]
          /\ {r \in store'[last'.kind] : r.subject # last'.subject}
                = {r \in store[last'.kind] : r.subject # last'.subject}
          /\ members' = members]_vars

\* A group grant deleted a member's entry for the object while a user
\* outside the group had an entry for that object, which is still present.
C19_Witness ==
    /\ Returned("assign_perm") /\ last.kind = "group"
    /\ last.fan # {}
    /\ \E u \in Users \ members[last.subject] :
          cache[CacheKey("user", u, last.obj)].present

\* ------------------------------------------- the revoke patch on any list

\* The lists of codenames of at most n elements, repeated codenames included.
Lists(n) == UNION {[1..m -> Codenames] : m \in 0..n}

\* Every entry starts as the same arbitrary list, whatever the tables hold.
InitPatch ==
    /\ generic \in {[k \in Kinds |-> b] : b \in BOOLEAN}
    /\ members = [g \in Groups |-> Users]
    /\ store = [k \in Kinds |-> {}]
    /\ nextId = [k \in Kinds |-> 1]
    /\ cache \in {[k \in Keys |-> Entry(l)] : l \in Lists(MaxLen)}
    /\ last = Outcome(Call("init", None, None, None, NoObject), "none", {},
                      FALSE, 0, Absent, {}, << >>)
    /\ steps = 0
    /\ inflight = [p \in Procs |-> Idle]

NextPatch ==
    \/ \E p \in Codenames, u \in Users, o \in ObjectsFor("user") : UserRemovePerm(p, u, o)
    \/ \E p \in Codenames, g \in Groups, o \in ObjectsFor("group") : GroupRemovePerm(p, g, o)

SpecPatch == InitPatch /\ [][NextPatch]_vars

\* C7: a revoke on a present entry that holds the codename removes its first
\* occurrence and nothing else: the list is one shorter, the elements before
\* the first occurrence and those after it keep their order, and the codename
\* occurs once less (not at all when it occurred once, once when twice).
C7_RevokePopsFirst ==
    (Returned("remove_perm") /\ last.own.present
        /\ Contains(last.own.perms, last.perm)) =>
        LET old == last.own.perms
            new == OwnNow.perms
        IN /\ OwnNow.present
           /\ Len(new) = Len(old) - 1
           /\ Count(new, last.perm) = Count(old, last.perm) - 1
           /\ \E i \in 1..Len(old) :
                 /\ old[i] = last.perm
                 /\ \A j \in 1..(i - 1) : old[j] # last.perm /\ new[j] = old[j]
                 /\ \A j \in i..Len(new) : new[j] = old[j + 1]

\* A user revoke on an entry that held the codename twice, around another
\* codename.
C7_Witness ==
    /\ Returned("remove_perm") /\ last.kind = "user"
    /\ Count(last.own.perms, last.perm) = 2
    /\ Len(last.own.perms) = 3
    /\ last.own.perms[2] # last.perm
    /\ Count(OwnNow.perms, last.perm) = 1

\* ------------------------------------------------------ concurrent requests

\* grant and revoke statement by statement, for requests that run at the
\* same time: the checks, the store statement (one get_or_create or one
\* filtered delete), cache.get, cache.set, the member query, and one
\* cache.delete per member.

FrameCall(f) == Call(f.op, f.kind, f.perm, f.subject, f.obj)
FrameKey(f) == CacheKey(f.kind, f.subject, f.obj)

\* Where a call goes on after its own cache entry: the group manager queries
\* the members, the user manager returns.
AfterPatch(kind) == IF kind = "group" THEN "members" ELSE "done"

\* The patch of the call's manager method, applied to a cache c.
PatchOf(f, c) ==
    IF f.op = "assign_perm" THEN AppendPatch(c, FrameKey(f), f.perm)
                            ELSE RemovePatch(c, FrameKey(f), f.perm)

Sets(patch) == \E i \in 1..Len(patch.log) : patch.log[i].op = "cache.set"

\* The call goes to its cache patch right after the checks, ahead of the
\* store statement.
BeginCacheFirst(p, op, kind, perm, subject, obj) ==
    LET call == Call(op, kind, perm, subject, obj) IN
    /\ steps < MaxCalls
    /\ inflight[p].pc \in {"idle", "done"}
    /\ steps' = steps + 1
    /\ inflight' = [inflight EXCEPT ![p] =
          IF ~IsPersisted(obj)
          THEN Frame(call, "done", "ObjectNotPersisted", Absent, {})
          ELSE IF op = "assign_perm" /\ PermissionGet(ContentTypeOf(obj), perm) = {}
          THEN Frame(call, "done", "DoesNotExist", Absent, {})
          ELSE Frame(call, "get", "none", Absent, {})]
    /\ UNCHANGED <<generic, members, store, nextId, cache, last>>

\* A request enters assign_perm or remove_perm: the persisted check and, for
\* a grant, the permission lookup.
Begin(p, op, kind, perm, subject, obj) ==
    LET call == Call(op, kind, perm, subject, obj) IN
    /\ steps < MaxCalls
    /\ inflight[p].pc \in {"idle", "done"}
    /\ steps' = steps + 1
    /\ inflight' = [inflight EXCEPT ![p] =
          IF ~IsPersisted(obj)
          THEN Frame(call, "done", "ObjectNotPersisted", Absent, {})
          ELSE IF op = "assign_perm" /\ PermissionGet(ContentTypeOf(obj), perm) = {}
          THEN Frame(call, "done", "DoesNotExist", Absent, {})
          ELSE Frame(call, "store", "none", Absent, {})]
    /\ UNCHANGED <<generic, members, store, nextId, cache, last>>

\* self.get_or_create(**kwargs), or self.filter(**filters).delete()
StoreStep(p) ==
    LET f == inflight[p] IN
    /\ f.pc = "store"
    /\ IF f.op = "assign_perm"
       THEN LET permission == CHOOSE x \in PermissionGet(ContentTypeOf(f.obj), f.perm) : TRUE
                got == GetOrCreate(store[f.kind],
                                   AssignKwargs(f.kind, permission, f.subject, f.obj),
                                   nextId[f.kind])
            IN
            /\ store' = [store EXCEPT ![f.kind] = got.table]
            /\ nextId' = [nextId EXCEPT ![f.kind] = IF got.created THEN @ + 1 ELSE @]
            /\ inflight' = [inflight EXCEPT ![p] =
                  IF got.err # "none"
                  THEN Frame(FrameCall(f), "done", got.err, Absent, {})
                  ELSE Frame(FrameCall(f), "get", "none", Absent, {})]
       ELSE /\ store' = [store EXCEPT ![f.kind] =
                  @ \ {r \in @ : RemoveFilter(f.kind, f.perm, f.subject, f.obj, r)}]
            /\ nextId' = nextId
            /\ inflight' = [inflight EXCEPT ![p] =
                  Frame(FrameCall(f), "get", "none", Absent, {})]
    /\ UNCHANGED <<generic, members, cache, last, steps>>

\* cache_perms = cache.get(key), and the test that guards the patch
CacheGet(p) ==
    LET f == inflight[p] IN
    /\ f.pc = "get"
    /\ inflight' = [inflight EXCEPT ![p] =
          Frame(FrameCall(f),
                IF Sets(PatchOf(f, cache)) THEN "set" ELSE AfterPatch(f.kind),
                "none", cache[FrameKey(f)], {})]
    /\ UNCHANGED <<generic, members, store, nextId, cache, last, steps>>

\* A compare-and-swap in place of the plain set: the patch is applied to the
\* entry as it is at the time of the write.
CacheSetFresh(p) ==
    LET f == inflight[p] IN
    /\ f.pc = "set"
    /\ cache' = [cache EXCEPT ![FrameKey(f)] = PatchOf(f, cache).cache[FrameKey(f)]]
    /\ inflight' = [inflight EXCEPT ![p] =
          Frame(FrameCall(f), AfterPatch(f.kind), "none", f.cache_perms, {})]
    /\ UNCHANGED <<generic, members, store, nextId, last, steps>>

\* cache.set(key, cache_perms), with the list read earlier and patched since
CacheSet(p) ==
    LET f == inflight[p]
        read == [cache EXCEPT ![FrameKey(f)] = f.cache_perms]
    IN
    /\ f.pc = "set"
    /\ cache' = [cache EXCEPT ![FrameKey(f)] = PatchOf(f, read).cache[FrameKey(f)]]
    /\ inflight' = [inflight EXCEPT ![p] =
          Frame(FrameCall(f), AfterPatch(f.kind), "none", f.cache_perms, {})]
    /\ UNCHANGED <<generic, members, store, nextId, last, steps>>

\* users = User.objects.filter(groups = group)
Members(p) ==
    LET f == inflight[p]
        users == MembersOf(f.subject)
    IN
    /\ f.pc = "members"
    /\ inflight' = [inflight EXCEPT ![p] =
          Frame(FrameCall(f), IF users = {} THEN "done" ELSE "delete",
                "none", f.cache_perms, users)]
    /\ UNCHANGED <<generic, members, store, nextId, cache, last, steps>>

\* The member's entry reset to an empty list instead of deleted.
DeleteClears(p) ==
    LET f == inflight[p] IN
    /\ f.pc = "delete"
    /\ \E u \in f.users :
          /\ cache' = [cache EXCEPT ![CacheKey("user", u, f.obj)] = Entry(<< >>)]
          /\ inflight' = [inflight EXCEPT ![p] =
                Frame(FrameCall(f),
                      IF f.users = {u} THEN "done" ELSE "delete",
                      "none", f.cache_perms, f.users \ {u})]
    /\ UNCHANGED <<generic, members, store, nextId, last, steps>>

\* One iteration of the fan-out loop: cache.delete(key) for the next user.
Delete(p) ==
    LET f == inflight[p] IN
    /\ f.pc = "delete"
    /\ \E u \in f.users :
          /\ cache' = [cache EXCEPT ![CacheKey("user", u, f.obj)] = Absent]
          /\ inflight' = [inflight EXCEPT ![p] =
                Frame(FrameCall(f),
                      IF f.users = {u} THEN "done" ELSE "delete",
                      "none", f.cache_perms, f.users \ {u})]
    /\ UNCHANGED <<generic, members, store, nextId, last, steps>>

\* The requests contend for one saved object.
ConcObjects == {Obj("T1", "1")}

\* The tables are empty and every entry has been populated (with the empty
\* list, as no subject holds anything yet).
InitConc ==
    /\ \E c \in Configs : generic = c.generic /\ members = c.members
    /\ store = [k \in Kinds |-> {}]
    /\ nextId = [k \in Kinds |-> 1]
    /\ cache = [k \in Keys |-> Entry(<< >>)]
    /\ last = Outcome(Call("init", None, None, None, NoObject), "none", {},
                      FALSE, 0, Absent, {}, << >>)
    /\ steps = 0
    /\ inflight = [p \in Procs |-> Idle]

NextConc ==
    \/ \E p \in Procs, op \in {"assign_perm", "remove_perm"}, k \in Kinds,
          c \in Codenames, s \in Users \cup Groups, o \in ConcObjects :
          s \in SubjectsOf(k) /\ o \in ObjectsFor(k) /\ Begin(p, op, k, c, s, o)
    \/ \E p \in Procs : StoreStep(p)
    \/ \E p \in Procs : CacheGet(p)
    \/ \E p \in Procs : CacheSet(p)
    \/ \E p \in Procs : Members(p)
    \/ \E p \in Procs : Delete(p)

SpecConc == InitConc /\ [][NextConc]_vars

\* C4: no present cache entry lists a codename twice, after any statement of
\* any interleaving of user and group grants and revokes that starts from
\* entries without duplicates.
C4_NoDuplicateCodenames ==
    \A k \in Keys : cache[k].present => NoDuplicates(cache[k].perms)

\* Two requests granted the same codename on the same entry at the same
\* time: both read the entry without the codename, both wrote it back, and
\* the entry holds the codename once.
C4_Witness ==
    /\ \A p \in Procs :
          /\ inflight[p].op = "assign_perm" /\ inflight[p].pc = "done"
          /\ inflight[p].cache_perms.present
          /\ ~Contains(inflight[p].cache_perms.perms, inflight[p].perm)
    /\ FrameCall(inflight["p1"]) = FrameCall(inflight["p2"])
    /\ LET e == cache[FrameKey(inflight["p1"])] IN
       e.present /\ Count(e.perms, inflight["p1"].perm) = 1

\* Whether a request's call has made its store statement and not raised.
Stored(f) ==
    f.pc \in {"get", "set", "members", "delete", "done"} /\ f.err = "none"

\* C12: with get_or_create as one atomic store statement, no interleaving of
\* concurrent calls leaves two rows for one (subject, permission, object), and
\* no more rows were ever created than the table holds or a revoke deleted:
\* two grants of one triple that are both past their store statement, with no
\* revoke in the run, have created one row between them.
C12_ConcurrentGrantsOneRow ==
    /\ \A k \in Kinds : \A r1, r2 \in store[k] : SameTriple(r1, r2) => r1 = r2
    /\ (/\ \A p \in Procs : inflight[p].op = "assign_perm" /\ Stored(inflight[p])
        /\ FrameCall(inflight["p1"]) = FrameCall(inflight["p2"])
        /\ steps = 2) =>
          LET f == inflight["p1"] IN
          /\ Cardinality(RowsFor(f.kind, f.subject, f.perm, f.obj)) = 1
          /\ Cardinality(store[f.kind]) = 1
          /\ nextId[f.kind] = 2

\* Two requests are in a grant of the same triple, both past get_or_create
\* and neither returned yet, and the table holds one row for the triple.
C12_Witness ==
    /\ \A p \in Procs :
          /\ inflight[p].op = "assign_perm"
          /\ inflight[p].pc \in {"get", "set", "members", "delete"}
    /\ FrameCall(inflight["p1"]) = FrameCall(inflight["p2"])
    /\ LET f == inflight["p1"] IN
       Cardinality(RowsFor(f.kind, f.subject, f.perm, f.obj)) = 1

\* --------------------------------------------------- a call that stops early

\* The call runs in a transaction that is rolled back when it stops: the
\* table is put back as it was before the call's store statement.
CrashRollsBack(p) ==
    LET f == inflight[p] IN
    /\ f.pc \in {"get", "set", "members", "delete"}
    /\ inflight' = [inflight EXCEPT ![p] =
          Frame(FrameCall(f), "crashed", "crashed", f.cache_perms, f.users)]
    /\ store' = [store EXCEPT ![f.kind] =
          @ \ {r \in @ : RemoveFilter(f.kind, f.perm, f.subject, f.obj, r)}]
    /\ UNCHANGED <<generic, members, nextId, cache, last, steps>>

\* The request dies (process killed, or a collaborator raised) after its
\* store statement: no statement of the managers catches anything or undoes
\* anything, so the call just goes no further. The frame keeps the members
\* whose entries were still to be deleted.
Crash(p) ==
    LET f == inflight[p] IN
    /\ f.pc \in {"get", "set", "members", "delete"}
    /\ inflight' = [inflight EXCEPT ![p] =
          Frame(FrameCall(f), "crashed", "crashed", f.cache_perms, f.users)]
    /\ UNCHANGED <<generic, members, store, nextId, cache, last, steps>>

NextCrash ==
    \/ NextConc
    \/ \E p \in Procs : Crash(p)

SpecCrash == InitConc /\ [][NextCrash]_vars

\* A request stopped inside the fan-out loop of a group call, after some
\* deletions and before others.
MidFanOut(f) ==
    /\ f.pc = "crashed" /\ f.kind = "group"
    /\ f.users # {} /\ f.users # members[f.subject]

\* C18: a call that stops changes nothing when it stops and is never taken
\* up again; while a group call is in its fan-out loop the entries of the
\* members still to come are not touched by it. So when a group call has
\* stopped inside the loop and no other request has run, the table has the
\* call's mutation (the row after a grant, no row after a revoke), the
\* members already handled have no entry, and the remaining members' entries
\* are still present as they were.
C18_FanOutNotTransactional ==
    /\ [][\A p \in Procs :
            LET f == inflight[p]
                g == inflight'[p]
            IN
            /\ (g.pc = "crashed" /\ f.pc # "crashed") =>
                  store' = store /\ nextId' = nextId /\ cache' = cache
            /\ f.pc = "crashed" => g = f
            /\ (f.pc = "delete" /\ g # f) =>
                  \A u \in g.users :
                     cache'[CacheKey("user", u, f.obj)] = cache[CacheKey("user", u, f.obj)]]_vars
    /\ [](\A p \in Procs :
            LET f == inflight[p] IN
            (MidFanOut(f) /\ \A q \in Procs \ {p} : inflight[q].pc = "idle") =>
               /\ (RowsFor("group", f.subject, f.perm, f.obj) # {}) = (f.op = "assign_perm")
               /\ \A u \in members[f.subject] \ f.users :
                     ~cache[CacheKey("user", u, f.obj)].present
               /\ steps = 1 => \A u \in f.users :
                     cache[CacheKey("user", u, f.obj)] = Entry(<< >>))

\* A group grant stopped inside its fan-out loop while no other request ran:
\* the row is in the table, one member's entry is gone and another member's
\* entry is still present.
C18_Witness ==
    \E p \in Procs :
        LET f == inflight[p] IN
        /\ MidFanOut(f) /\ f.op = "assign_perm"
        /\ \A q \in Procs \ {p} : inflight[q].pc = "idle"
        /\ RowsFor("group", f.subject, f.perm, f.obj) # {}
        /\ \E u \in members[f.subject] \ f.users :
              ~cache[CacheKey("user", u, f.obj)].present
        /\ \E u \in f.users : cache[CacheKey("user", u, f.obj)].present

\* C16: the cache patch is a read-modify-write without a lock: what a
\* request's cache.set writes is the list that request read earlier with its
\* codename appended (grant) or taken out (revoke), whatever the entry holds
\* by then, and it writes that key only. So a write made in between is lost.
C16_SetWritesWhatWasRead ==
    [][\A p \in Procs :
          (inflight[p].pc = "set" /\ inflight'[p].pc # "set") =>
             LET f == inflight[p]
                 read == f.cache_perms.perms
             IN
             /\ f.cache_perms.present
             /\ cache' = [cache EXCEPT ![FrameKey(f)] =
                   Entry(IF f.op = "assign_perm"
                         THEN Append(read, f.perm)
                         ELSE SelectSeq(read, LAMBDA y : y # f.perm))]
             /\ store' = store]_vars

\* Two requests for one user and one object have both returned, one of them
\* a grant; both read a present entry; the table holds the granted row and
\* the entry, still present, does not list its codename.
C16_Witness ==
    \E p, q \in Procs :
        LET f == inflight[p]
            g == inflight[q]
        IN
        /\ p # q
        /\ f.pc = "done" /\ f.err = "none" /\ g.pc = "done" /\ g.err = "none"
        /\ f.kind = "user" /\ g.kind = "user"
        /\ f.subject = g.subject /\ f.obj = g.obj
        /\ f.op = "assign_perm"
        /\ f.cache_perms.present /\ g.cache_perms.present
        /\ RowsFor("user", f.subject, f.perm, f.obj) # {}
        /\ cache[FrameKey(f)].present
        /\ ~Contains(cache[FrameKey(f)].perms, f.perm)

\* The cache keys on which two caches differ.
Changed(c, d) == {k \in Keys : c[k] # d[k]}

\* The keys of a group's members for an object.
MemberKeys(group, obj) == {CacheKey("user", u, obj) : u \in members[group]}

\* C17: the statements of a grant or revoke run in one order. A call starts
\* with its checks, which touch nothing and either raise or lead to the
\* store statement; the store statement is the only one that changes a
\* table, and no cache entry changes before it or with it; then the call
\* reads its own entry, then (possibly) writes that entry and no other; and
\* only a group call goes on, after that, to the member query and the
\* members' deletions, which change members' entries only.
C17_StepOrder ==
    [][\A p \in Procs :
          LET f == inflight[p]
              g == inflight'[p]
          IN
          (g # f) =>
             /\ f.pc \in {"idle", "done"} =>
                   /\ g.pc \in {"store", "done"}
                   /\ (g.pc = "done") = (g.err # "none")
                   /\ store' = store /\ cache' = cache
             /\ f.pc \notin {"idle", "done"} => FrameCall(g) = FrameCall(f)
             /\ f.pc = "store" =>
                   /\ g.pc \in {"get", "done"}
                   /\ cache' = cache
             /\ f.pc # "store" => store' = store /\ nextId' = nextId
             /\ f.pc = "get" =>
                   /\ g.pc \in {"set", IF f.kind = "group" THEN "members" ELSE "done"}
                   /\ cache' = cache
             /\ f.pc = "set" =>
                   /\ g.pc = (IF f.kind = "group" THEN "members" ELSE "done")
                   /\ Changed(cache, cache') \subseteq {FrameKey(f)}
             /\ f.pc = "members" =>
                   /\ f.kind = "group"
                   /\ g.pc \in {"delete", "done"}
                   /\ cache' = cache
             /\ f.pc = "delete" =>
                   /\ f.kind = "group"
                   /\ g.pc \in {"delete", "done"}
                   /\ Changed(cache, cache') \subseteq MemberKeys(f.subject, f.obj)
                   /\ \A k \in Changed(cache, cache') : ~cache'[k].present]_vars

\* A group grant has returned after every one of its statements: the row is
\* in the table, the group's own entry was read without the codename and
\* lists it now, and every member's entry is absent.
C17_Witness ==
    \E p \in Procs :
        LET f == inflight[p] IN
        /\ f.op = "assign_perm" /\ f.kind = "group"
        /\ f.pc = "done" /\ f.err = "none"
        /\ RowsFor("group", f.subject, f.perm, f.obj) # {}
        /\ f.cache_perms.present /\ ~Contains(f.cache_perms.perms, f.perm)
        /\ cache[FrameKey(f)].present /\ Contains(cache[FrameKey(f)].perms, f.perm)
        /\ \A k \in MemberKeys(f.subject, f.obj) : ~cache[k].present

\* Request p has returned from a group grant and request q from a grant or
\* revoke for a member of that group on the same object.
GroupGrantAndMemberCall(p, q) ==
    LET f == inflight[p]
        g == inflight[q]
    IN
    /\ p # q
    /\ f.op = "assign_perm" /\ f.kind = "group"
    /\ f.pc = "done" /\ f.err = "none"
    /\ g.op \in {"assign_perm", "remove_perm"} /\ g.kind = "user"
    /\ g.pc = "done" /\ g.err = "none"
    /\ g.subject \in members[f.subject]
    /\ g.obj = f.obj

\* The list a call leaves in its own entry, given the list it read.
Patched(g) ==
    LET read == g.cache_perms.perms IN
    IF g.op = "assign_perm"
    THEN (IF Contains(read, g.perm) THEN read ELSE Append(read, g.perm))
    ELSE SelectSeq(read, LAMBDA y : y # g.perm)

\* C20 as stated: once a group grant of p and a call for a member user on
\* the same object have both returned, the member's entry for the object is
\* absent or lists p.
C20_InvalidationSurvives ==
    \A p, q \in Procs :
        GroupGrantAndMemberCall(p, q) =>
            LET e == cache[FrameKey(inflight[q])] IN
            ~e.present \/ Contains(e.perms, inflight[p].perm)

\* C20, amended: once both have returned, the member's entry is absent, or
\* lists p, or is the list the user call read, patched by that call: the
\* user call's cache.set can come after the group call's cache.delete and
\* bring back the list read before it.
C20_InvalidationOrWriteBack ==
    \A p, q \in Procs :
        GroupGrantAndMemberCall(p, q) =>
            LET e == cache[FrameKey(inflight[q])] IN
            \/ ~e.present
            \/ Contains(e.perms, inflight[p].perm)
            \/ inflight[q].cache_perms.present /\ e = Entry(Patched(inflight[q]))

\* A group grant of p and a user grant for a member have both returned, and
\* the member's entry is present without p: it is the list the user call
\* read, with the user call's codename appended.
C20_Witness ==
    \E p, q \in Procs :
        /\ GroupGrantAndMemberCall(p, q)
        /\ inflight[q].op = "assign_perm"
        /\ cache[FrameKey(inflight[q])].present
        /\ ~Contains(cache[FrameKey(inflight[q])].perms, inflight[p].perm)
        /\ Contains(cache[FrameKey(inflight[q])].perms, inflight[q].perm)
        /\ RowsFor("group", inflight[p].subject, inflight[p].perm, inflight[p].obj) # {}

====
